---- MODULE Spec2Model ----
(***************************************************************************)
(* A model of the AIC orchestrator (src/orchestrator/main.py, llm.py,      *)
(* tools.py): the DAG scheduler, the step executor and the pipeline        *)
(* orchestrator with its Redis shadow and control-plane REST writes.       *)
(*                                                                         *)
(* Strings whose characters the code inspects (node ids, output keys) are  *)
(* sequences of one-character strings, so that str.startswith is computed  *)
(* and not assumed.  Opaque payloads (LLM content, input values) are       *)
(* TLA+ strings.  Wall-clock fields (startedAt, finishedAt, latencyMs) are *)
(* left out: no branch of the code reads them.                             *)
(***************************************************************************)
EXTENDS Integers, Sequences, FiniteSets, TLC

VARIABLES
    dag,        \* topological_sort: the `dag` argument
    kahn,       \* topological_sort: in_degree, graph, queue, result
    sortPc,     \* topological_sort: position ("build", "loop", "returned", "raised")
    toolIn,     \* _execute_tool_step: the step id and the registry's raw result
    toolOut,    \* _execute_tool_step: formatted_result
    toolPc,     \* _execute_tool_step: position ("call", "returned")
    llmIn,      \* LLMService.generate: provider argument, adapters, vendor answer
    llmOut,     \* LLMService.generate: what it returns or raises
    llmPc,      \* LLMService.generate: position ("call", "returned", "raised")
    tplIn,      \* _interpolate_template: the template and the context
    tplOut,     \* _interpolate_template: the interpolated prompt, what the service sends, the tool config
    tplPc,      \* _interpolate_template: position ("call", "prompt", "sent", "config")
    env,        \* the surroundings: credentials, control plane, fault and request budgets
    task,       \* the background tasks running execute_pipeline, with their locals
    redis,      \* the Redis shadow: key -> last value set
    http        \* the last HTTP request (via, body) and the response to it

sortVars == <<dag, kahn, sortPc>>
toolVars == <<toolIn, toolOut, toolPc>>
llmVars == <<llmIn, llmOut, llmPc>>
tplVars == <<tplIn, tplOut, tplPc>>
runVars == <<env, task, redis, http>>

vars == <<dag, kahn, sortPc, toolIn, toolOut, toolPc, llmIn, llmOut, llmPc,
          tplIn, tplOut, tplPc,
          env, task, redis, http>>

(***************************************************************************)
(* Bounds of the model.                                                    *)
(***************************************************************************)
MaxEdges == 3     \* edges of a pipeline given to the scheduler alone
MaxKeyLen == 3    \* characters of a raw result key given to the key formatter
MaxRedisFaults == 1   \* Redis commands that fail during one behaviour
MaxPieces == 2    \* pieces (a character or a placeholder) of a template given to the interpolators

(***************************************************************************)
(* Generic helpers.                                                        *)
(***************************************************************************)
Range(s) == {s[i] : i \in DOMAIN s}

SeqsUpTo(S, n) == UNION {[1..k -> S] : k \in 0..n}

InjectiveSeqs(S) ==
    {s \in UNION {[1..k -> S] : k \in 0..Cardinality(S)} :
        \A i, j \in DOMAIN s : i # j => s[i] # s[j]}

\* list.index: position of the first occurrence, 0 when absent
IndexOf(x, s) ==
    IF x \in Range(s) THEN CHOOSE i \in DOMAIN s : s[i] = x /\ \A j \in 1..(i-1) : s[j] # x
    ELSE 0

(***************************************************************************)
(* Node ids.                                                               *)
(***************************************************************************)
IdA == <<"a">>
IdB == <<"b">>
IdC == <<"c">>
IdG == <<"g">>
IdX == <<"x">>   \* never the id of a node: an edge endpoint that names no node

(***************************************************************************)
(* Strings the code inspects character by character.                      *)
(***************************************************************************)
K_cost == <<"c", "o", "s", "t">>
K_input_tokens == <<"i", "n", "p", "u", "t", "_", "t", "o", "k", "e", "n", "s">>
K_output_tokens == <<"o", "u", "t", "p", "u", "t", "_", "t", "o", "k", "e", "n", "s">>
K_total_tokens == <<"t", "o", "t", "a", "l", "_", "t", "o", "k", "e", "n", "s">>
K_model == <<"m", "o", "d", "e", "l">>
K_content == <<"c", "o", "n", "t", "e", "n", "t">>
K_output == <<"o", "u", "t", "p", "u", "t">>
K_result == <<"r", "e", "s", "u", "l", "t">>
K_query == <<"q", "u", "e", "r", "y">>
K_sources == <<"s", "o", "u", "r", "c", "e", "s">>
K_competitors == <<"c", "o", "m", "p", "e", "t", "i", "t", "o", "r", "s">>
K_analysis == <<"a", "n", "a", "l", "y", "s", "i", "s">>
K_condition_result == <<"c", "o", "n", "d", "i", "t", "i", "o", "n", "_", "r", "e", "s", "u", "l", "t">>
K_condition == <<"c", "o", "n", "d", "i", "t", "i", "o", "n">>
WebSearch == <<"w", "e", "b", "_", "s", "e", "a", "r", "c", "h">>
CompetitorAnalysis == <<"c", "o", "m", "p", "e", "t", "i", "t", "o", "r", "_", "a", "n", "a", "l", "y", "s", "i", "s">>

Underscore == <<"_">>

\* str.startswith
StartsWith(s, p) == Len(p) <= Len(s) /\ SubSeq(s, 1, Len(p)) = p

\* a dict built by assigning the pairs <<key, value>> in order
DictOf(ps) ==
    [k \in {ps[i][1] : i \in DOMAIN ps} |->
        ps[CHOOSE i \in DOMAIN ps :
              ps[i][1] = k /\ \A j \in DOMAIN ps : ps[j][1] = k => j <= i][2]]

\* dict.get(key, default)
Get(d, k, default) == IF k \in DOMAIN d THEN d[k] ELSE default

\* a merge in which the keys already present win
MergeKeepsEarlier(a, b) ==
    [k \in DOMAIN a \cup DOMAIN b |-> IF k \in DOMAIN a THEN a[k] ELSE b[k]]

\* dict.update / shallow merge: the keys of `b` overwrite those of `a`
Merge(a, b) ==
    [k \in DOMAIN a \cup DOMAIN b |-> IF k \in DOMAIN b THEN b[k] ELSE a[k]]

EmptyDict == <<>>

\* a JSON number inside a dict whose other values are strings or objects
Num(n) == <<"num", n>>

(***************************************************************************)
(* PipelineOrchestrator.topological_sort                                   *)
(***************************************************************************)
\* nodes = {node["id"]: node for node in dag["nodes"]}
NodeIds(d) == {d.nodes[i].id : i \in DOMAIN d.nodes}

\* the edges the build loop keeps: `if from_id in graph`
KeptEdges(d) == SelectSeq(d.edges, LAMBDA e : e.from \in NodeIds(d))

RECURSIVE Targets(_)
Targets(es) == IF es = <<>> THEN <<>> ELSE <<Head(es).to>> \o Targets(Tail(es))

RECURSIVE CountTo(_, _)
CountTo(es, id) ==
    IF es = <<>> THEN 0
    ELSE (IF Head(es).to = id THEN 1 ELSE 0) + CountTo(Tail(es), id)

\* graph[from_id].append(to_id), in edge order
GraphOf(d) ==
    [n \in NodeIds(d) |->
        Targets(SelectSeq(d.edges, LAMBDA e : e.from = n))]

\* in_degree[to_id] = in_degree.get(to_id, 0) + 1: an unknown `to` gets a key
InDegreeOf(d) ==
    [n \in NodeIds(d) \cup Range(Targets(KeptEdges(d))) |->
        CountTo(KeptEdges(d), n)]

\* queue = [node_id for node_id, degree in in_degree.items() if degree == 0]
\* (dict order: the nodes in declaration order; an unknown `to` has degree >= 1)
InitialQueue(d) ==
    LET ind == InDegreeOf(d)
        ids == [i \in DOMAIN d.nodes |-> d.nodes[i].id]
    IN  SelectSeq(ids, LAMBDA n : ind[n] = 0)

KahnInit(d) ==
    [in_degree |-> InDegreeOf(d),
     graph     |-> GraphOf(d),
     queue     |-> InitialQueue(d),
     result    |-> <<>>]

\* for neighbor in graph.get(node_id, []): in_degree[neighbor] -= 1; enqueue at 0
RECURSIVE Relax(_, _)
Relax(st, nbrs) ==
    IF nbrs = <<>> THEN st
    ELSE LET v   == Head(nbrs)
             ind == [st.in_degree EXCEPT ![v] = @ - 1]
         IN  Relax([st EXCEPT !.in_degree = ind,
                              !.queue = IF ind[v] = 0 THEN Append(@, v) ELSE @],
                   Tail(nbrs))

\* one iteration of `while queue:`
KahnStep(st) ==
    LET n    == Head(st.queue)
        nbrs == IF n \in DOMAIN st.graph THEN st.graph[n] ELSE <<>>
    IN  Relax([st EXCEPT !.queue = Tail(@), !.result = Append(@, n)], nbrs)

RECURSIVE KahnRun(_)
KahnRun(st) == IF st.queue = <<>> THEN st ELSE KahnRun(KahnStep(st))

\* if len(result) != len(nodes): raise ValueError("Pipeline DAG contains cycles")
SortRaises(d, result) == Len(result) # Cardinality(NodeIds(d))

\* the whole call: [ok |-> FALSE] when it raises, else the order
topological_sort(d) ==
    LET r == KahnRun(KahnInit(d)).result
    IN  IF SortRaises(d, r) THEN [ok |-> FALSE, order |-> <<>>]
        ELSE [ok |-> TRUE, order |-> r]

(***************************************************************************)
(* Background tasks and their locals in execute_pipeline.                  *)
(***************************************************************************)
Tasks == {"t1", "t2"}

IdleTask ==
    [pc |-> "idle", via |-> "", run_id |-> "", pipeline |-> <<>>, inputs |-> <<>>,
     order |-> <<>>, idx |-> 0, step_runs |-> <<>>, current_outputs |-> <<>>,
     total_cost |-> 0, total_tokens |-> 0,
     raw_output |-> <<>>, step_output |-> <<>>, step_cost |-> 0, step_tokens |-> 0,
     exc |-> <<>>, result |-> <<>>,
     \* history: the Redis commands that succeeded, the REST calls attempted,
     \* the executor calls with their outcome
     writes |-> <<>>, calls |-> <<>>, dispatched |-> <<>>]

NoEnv ==
    [requests |-> 0, pipelines |-> {}, redisFaults |-> 0, redisFailed |-> FALSE,
     api |-> "down", llm |-> [openai |-> FALSE, anthropic |-> FALSE],
     tavily |-> FALSE, backendFaults |-> FALSE, serial |-> TRUE, runIds |-> {}]

NoResponse == [code |-> 0]

RunIdle ==
    /\ env = NoEnv
    /\ task = [t \in Tasks |-> IdleTask]
    /\ redis = <<>>
    /\ http = NoResponse

(***************************************************************************)
(* The scheduler alone, stepped one loop iteration at a time, on every     *)
(* node list over SortIds and every edge list of at most MaxEdges edges    *)
(* whose endpoints are node ids or the unknown id.                         *)
(***************************************************************************)
SortIds == {IdA, IdB, IdC}

SortNode(id) == [id |-> id, type |-> "agent"]

SortDags ==
    {[nodes |-> [i \in DOMAIN ns |-> SortNode(ns[i])], edges |-> es] :
        ns \in InjectiveSeqs(SortIds) \ {<<>>},
        es \in SeqsUpTo([from : SortIds \cup {IdX}, to : SortIds \cup {IdX}], MaxEdges)}

NoKahn == [in_degree |-> <<>>, graph |-> <<>>, queue |-> <<>>, result |-> <<>>]

ToolIdle == toolIn = <<>> /\ toolOut = <<>> /\ toolPc = "off"

LLMIdle == llmIn = <<>> /\ llmOut = <<>> /\ llmPc = "off"

TplIdle == tplIn = <<>> /\ tplOut = <<>> /\ tplPc = "off"

SortInit ==
    /\ dag \in SortDags
    /\ kahn = NoKahn
    /\ sortPc = "build"
    /\ ToolIdle
    /\ LLMIdle
    /\ TplIdle
    /\ RunIdle

SortBuild ==
    /\ sortPc = "build"
    /\ kahn' = KahnInit(dag)
    /\ sortPc' = "loop"
    /\ UNCHANGED <<dag, toolVars, llmVars, tplVars, runVars>>

SortLoop ==
    /\ sortPc = "loop"
    /\ kahn.queue # <<>>
    /\ kahn' = KahnStep(kahn)
    /\ UNCHANGED <<dag, sortPc, toolVars, llmVars, tplVars, runVars>>

SortFinish ==
    /\ sortPc = "loop"
    /\ kahn.queue = <<>>
    /\ sortPc' = IF SortRaises(dag, kahn.result) THEN "raised" ELSE "returned"
    /\ UNCHANGED <<dag, kahn, toolVars, llmVars, tplVars, runVars>>

SortNext == SortBuild \/ SortLoop \/ SortFinish

SpecSort == SortInit /\ [][SortNext]_vars

(***************************************************************************)
(* StepExecutor._execute_tool_step: the shaping of the registry's result.  *)
(***************************************************************************)
\* f"{step['id']}_{key}" if not key.startswith(step['id']) else key
FormatKey(id, key) ==
    IF ~StartsWith(key, id) THEN id \o Underscore \o key ELSE key

\* formatted_result, filled in the order of result.items()
FormatResult(id, raw) ==
    DictOf([i \in DOMAIN raw |-> <<FormatKey(id, raw[i][1]), raw[i][2]>>])

(***************************************************************************)
(* The key formatter alone, on every step id of fewer than MaxKeyLen       *)
(* characters and every raw result of one or two keys of at most MaxKeyLen *)
(* characters over a three-letter alphabet that has the underscore.        *)
(***************************************************************************)
KeyAlphabet == {"q", "k", "_"}

RawKeys == SeqsUpTo(KeyAlphabet, MaxKeyLen) \ {<<>>}

ToolStepIds == SeqsUpTo(KeyAlphabet, MaxKeyLen - 1) \ {<<>>}

RawValue(i) == <<"value", i>>

RawResults ==
    {<<<<k, RawValue(1)>>>> : k \in RawKeys}
    \cup {<<<<p[1], RawValue(1)>>, <<p[2], RawValue(2)>>>> :
            p \in {q \in RawKeys \X RawKeys : q[1] # q[2]}}

SortIdle == dag = <<>> /\ kahn = NoKahn /\ sortPc = "off"

ToolInit ==
    /\ toolIn \in [id : ToolStepIds, raw : RawResults]
    /\ toolOut = <<>>
    /\ toolPc = "call"
    /\ SortIdle
    /\ LLMIdle
    /\ TplIdle
    /\ RunIdle

ToolFormat ==
    /\ toolPc = "call"
    /\ toolOut' = FormatResult(toolIn.id, toolIn.raw)
    /\ toolPc' = "returned"
    /\ UNCHANGED <<toolIn, sortVars, llmVars, tplVars, runVars>>

ToolNext == ToolFormat

SpecTool == ToolInit /\ [][ToolNext]_vars

(***************************************************************************)
(* Pipelines, requests and back-end outcomes the orchestrator is run on.   *)
(***************************************************************************)
IdQ == <<"q">>

None == <<"None">>

Str(s) == <<"str", s>>

Node(id, type, config) == [id |-> id, type |-> type, config |-> config]

NoConfig == <<>>

Edge(u, v) == [from |-> u, to |-> v]

Pipeline(nodes, edges, allowed) ==
    [steps |-> [nodes |-> nodes, edges |-> edges],
     policies |-> [allowedTools |-> allowed]]

\* S1: two agents in a line (the mock provider is the one `auto` falls back to)
PipeS1 ==
    Pipeline(<<Node(IdA, "agent", NoConfig),
               Node(IdB, "agent", NoConfig)>>,
             <<Edge(IdA, IdB)>>, {})

\* S6: agent, approval gate, agent
PipeS6 ==
    Pipeline(<<Node(IdA, "agent", NoConfig), Node(IdG, "approval", NoConfig),
               Node(IdB, "agent", NoConfig)>>,
             <<Edge(IdA, IdG), Edge(IdG, IdB)>>, {})

\* S2: a two-node cycle
PipeS2 ==
    Pipeline(<<Node(IdA, "agent", NoConfig), Node(IdB, "agent", NoConfig)>>,
             <<Edge(IdA, IdB), Edge(IdB, IdA)>>, {})

\* a self-loop on b beside an edge from a to an id that names no node
PipeLoopAndStray ==
    Pipeline(<<Node(IdA, "agent", [provider |-> "mock"]),
               Node(IdB, "agent", NoConfig)>>,
             <<Edge(IdA, IdX), Edge(IdB, IdB)>>, {})

\* an edge from an id that names no node
PipeStrayFrom ==
    Pipeline(<<Node(IdA, "agent", [provider |-> "openai"])>>,
             <<Edge(IdX, IdA)>>, {})

\* a web_search tool step whose id is a prefix of one of its result keys
PipeTool ==
    Pipeline(<<Node(IdQ, "tool", [tool |-> WebSearch]),
               Node(IdA, "agent", NoConfig)>>,
             <<Edge(IdQ, IdA)>>, {WebSearch})

\* S3: a tool the policy does not allow
PipeDenied ==
    Pipeline(<<Node(IdQ, "tool", [tool |-> WebSearch])>>, <<>>,
             {CompetitorAnalysis})

\* a tool step named by its id, and a tool the registry does not know, in a
\* pipeline whose policies have no allowedTools
PipeToolById ==
    [Pipeline(<<Node(CompetitorAnalysis, "tool", NoConfig),
                Node(IdQ, "tool", NoConfig)>>,
              <<Edge(CompetitorAnalysis, IdQ)>>, {}) EXCEPT !.policies = <<>>]

\* a condition step before an agent that names an unknown provider
PipeCondition ==
    Pipeline(<<Node(IdC, "condition", NoConfig),
               Node(IdA, "agent", [provider |-> "anthropic"]),
               Node(IdB, "agent", [provider |-> "other"])>>,
             <<Edge(IdC, IdA), Edge(IdA, IdB)>>, {})

PipeEmpty == Pipeline(<<>>, <<>>, {})

\* two competitor analyses, the first one given searchResults, the second
\* one not, under a policy that allows competitor_analysis only
PipeIndirect ==
    Pipeline(<<Node(IdG, "tool", [tool |-> CompetitorAnalysis,
                                  searchResults |-> "{\"k\":1}"]),
               Node(IdC, "tool", [tool |-> CompetitorAnalysis])>>,
             <<Edge(IdG, IdC)>>, {CompetitorAnalysis})

Pipelines ==
    {PipeS1, PipeS6, PipeS2, PipeLoopAndStray, PipeStrayFrom, PipeTool,
     PipeDenied, PipeToolById, PipeCondition, PipeEmpty, PipeIndirect}

\* initial input envelopes: the empty map, and one that already holds keys
\* the steps write
InputDicts == {EmptyDict, (K_cost :> Num(7)) @@ (K_content :> Str("seed"))}

RunIds == {"r1"}

\* request bodies: `pipeline`, `inputs` and `decision` may each be absent
StartBodies(pipelines) ==
    [pipeline : pipelines, inputs : InputDicts]
    \cup [pipeline : {PipeS1}]
    \cup [inputs : {EmptyDict}]

ResumeBodies(pipelines) ==
    [pipeline : pipelines, inputs : InputDicts, decision : {"approved"}]
    \cup [pipeline : {PipeS6}, inputs : {EmptyDict}, decision : {"rejected"}]
    \cup [pipeline : {PipeS6}, inputs : {EmptyDict}]
    \cup [pipeline : {PipeS6}, decision : {"approved"}]

\* what a model vendor or search back-end answers: it raises, or it returns
\* content with its usage (cost in millionths of a dollar)
Usage(i, o, t, c) ==
    [input_tokens |-> i, output_tokens |-> o, total_tokens |-> t, cost |-> c]

BackendOk ==
    {[ok |-> TRUE, content |-> "text", usage |-> Usage(1, 2, 3, 5)],
     [ok |-> TRUE, content |-> "{\"k\":1}", usage |-> Usage(2, 1, 4, 9)],
     [ok |-> TRUE, content |-> "{oops", usage |-> Usage(0, 0, 0, 0)]}

BackendRaise == [ok |-> FALSE, content |-> "", usage |-> Usage(0, 0, 0, 0)]

\* content.strip().startswith("{") or ...startswith("[")
LooksLikeJson(c) == c \in {"{\"k\":1}", "{oops"}

\* json.loads succeeds
ParsesAsJson(c) == c \in {"{\"k\":1}"}

(***************************************************************************)
(* LLMService.generate: provider selection and dispatch.                   *)
(***************************************************************************)
\* a selection that prefers Anthropic to OpenAI
ResolveProviderAnthropicFirst(provider, llm) ==
    IF provider = "auto"
    THEN IF llm.anthropic THEN "anthropic"
         ELSE IF llm.openai THEN "openai" ELSE "mock"
    ELSE provider

ResolveProvider(provider, llm) ==
    IF provider = "auto"
    THEN IF llm.openai THEN "openai"
         ELSE IF llm.anthropic THEN "anthropic" ELSE "mock"
    ELSE provider

Raise(msg) == [ok |-> FALSE, msg |-> msg]

Return(out) == [ok |-> TRUE, out |-> out]

\* the vendor adapters wrap a vendor error; the mock adapter never fails
\* and reports no tokens and no cost
LLMGenerate(provider, llm, b) ==
    LET p == ResolveProvider(provider, llm)
        answered(prefix) ==
            IF b.ok
            THEN Return([content |-> b.content, usage |-> b.usage,
                         model |-> Str(p)])
            ELSE Raise(<<prefix, "vendor error">>)
    IN  CASE p = "openai" ->
               IF ~llm.openai THEN Raise(<<"OpenAI provider not initialized">>)
               ELSE answered("OpenAI API error: ")
          [] p = "anthropic" ->
               IF ~llm.anthropic
               THEN Raise(<<"Anthropic provider not initialized">>)
               ELSE answered("Anthropic API error: ")
          [] p = "mock" ->
               Return([content |-> "MOCK LLM RESPONSE", usage |-> Usage(0, 0, 0, 0),
                       model |-> Str("mock-llm")])
          [] OTHER -> Raise(<<"Unknown provider: ", p>>)

(***************************************************************************)
(* LLMService.generate alone, on every provider argument, every            *)
(* combination of initialised adapters and every vendor answer.            *)
(***************************************************************************)
Providers == {"auto", "openai", "anthropic", "mock", "other"}

LLMInit ==
    /\ llmIn \in [provider : Providers,
                  llm : [openai : BOOLEAN, anthropic : BOOLEAN],
                  b : BackendOk \cup {BackendRaise}]
    /\ llmOut = <<>>
    /\ llmPc = "call"
    /\ SortIdle
    /\ ToolIdle
    /\ TplIdle
    /\ RunIdle

LLMCall ==
    /\ llmPc = "call"
    /\ llmOut' = LLMGenerate(llmIn.provider, llmIn.llm, llmIn.b)
    /\ llmPc' = IF llmOut'.ok THEN "returned" ELSE "raised"
    /\ UNCHANGED <<llmIn, sortVars, toolVars, tplVars, runVars>>

LLMNext == LLMCall

SpecLLM == LLMInit /\ [][LLMNext]_vars

(***************************************************************************)
(* Template interpolation (main.py 142-161, llm.py 274-287, tools.py       *)
(* 232-258).  A template is a sequence of characters; a context is a       *)
(* Python dict, kept as the sequence of its <<key, value>> items in        *)
(* insertion order; a value is a string, a dict or None.                   *)
(***************************************************************************)
TStr(cs) == [t |-> "str", v |-> cs]
TDict(items) == [t |-> "dict", v |-> items]
TNone == [t |-> "none", v |-> <<>>]

\* key in value, value[key]
HasKey(items, key) == \E i \in DOMAIN items : items[i][1] = key
ItemOf(items, key) == items[CHOOSE i \in DOMAIN items : items[i][1] = key][2]

\* str.strip
Strip(cs) ==
    LET kept == {i \in DOMAIN cs : cs[i] # " "}
    IN  IF kept = {} THEN <<>>
        ELSE SubSeq(cs, CHOOSE i \in kept : \A j \in kept : i <= j,
                        CHOOSE i \in kept : \A j \in kept : i >= j)

\* str.split(".")
RECURSIVE Split(_)
Split(cs) ==
    IF "." \notin Range(cs) THEN <<cs>>
    ELSE <<SubSeq(cs, 1, IndexOf(".", cs) - 1)>>
         \o Split(SubSeq(cs, IndexOf(".", cs) + 1, Len(cs)))

\* str(value) of a dict: its repr
RECURSIVE PyRepr(_, _)
PyRepr(val, i) ==
    CASE val.t = "str" -> <<"'">> \o val.v \o <<"'">>
      [] val.t = "none" -> <<"N", "o", "n", "e">>
      [] val.t = "dict" ->
            IF i > Len(val.v) THEN (IF i = 1 THEN <<"{", "}">> ELSE <<"}">>)
            ELSE (IF i = 1 THEN <<"{">> ELSE <<",", " ">>)
                 \o <<"'">> \o val.v[i][1] \o <<"'", ":", " ">>
                 \o PyRepr(val.v[i][2], 1) \o PyRepr(val, i + 1)

\* the loop `for key in var.split(".")` from its n-th key on; `nested` is
\* TRUE for the executor, whose else branch searches the top-level values
\* of the context that are dicts, in insertion order, for the key
RECURSIVE ForKey(_, _, _, _, _)
ForKey(value, keys, n, context, nested) ==
    IF n > Len(keys) THEN [hit |-> TRUE, value |-> value]
    ELSE IF value.t = "dict" /\ HasKey(value.v, keys[n])
    THEN ForKey(ItemOf(value.v, keys[n]), keys, n + 1, context, nested)
    ELSE LET holders == {i \in DOMAIN context :
                            /\ context[i][2].t = "dict"
                            /\ HasKey(context[i][2].v, keys[n])}
         IN  IF nested /\ holders # {}
             THEN ForKey(ItemOf(context[CHOOSE i \in holders :
                                           \A j \in holders : i <= j][2].v,
                                keys[n]),
                         keys, n + 1, context, nested)
             ELSE [hit |-> FALSE, value |-> TNone]

\* a miss that blanks the placeholder instead of keeping it
replace_var_blank(group0, group1, context, nested) ==
    LET found == ForKey(TDict(context), Split(Strip(group1)), 1, context, nested)
    IN  IF ~found.hit THEN <<>>
        ELSE IF found.value.t = "str" THEN found.value.v
        ELSE IF found.value.t = "none" THEN <<>>
        ELSE PyRepr(found.value, 1)

\* group0 is match.group(0), group1 is match.group(1)
replace_var(group0, group1, context, nested) ==
    LET found == ForKey(TDict(context), Split(Strip(group1)), 1, context, nested)
    IN  IF ~found.hit THEN group0
        ELSE IF found.value.t = "str" THEN found.value.v
        ELSE IF found.value.t = "none" THEN <<>>
        ELSE PyRepr(found.value, 1)

\* where a match of \{\{([^}]+)\}\} that starts at i ends, 0 when there is
\* none: the group is everything up to the first "}" and is not empty
MatchEnd(template, i) ==
    IF i + 1 > Len(template) \/ template[i] # "{" \/ template[i + 1] # "{" THEN 0
    ELSE LET closers == {k \in (i + 2)..Len(template) : template[k] = "}"}
         IN  IF closers = {} THEN 0
             ELSE LET k == CHOOSE c \in closers : \A d \in closers : c <= d
                  IN  IF k > i + 2 /\ k + 1 <= Len(template) /\ template[k + 1] = "}"
                      THEN k + 1
                      ELSE 0

\* re.sub from position i on: leftmost matches, not overlapping, and the
\* replacement is not scanned again
RECURSIVE ReSub(_, _, _, _)
ReSub(template, i, context, nested) ==
    IF i > Len(template) THEN <<>>
    ELSE IF MatchEnd(template, i) = 0
    THEN <<template[i]>> \o ReSub(template, i + 1, context, nested)
    ELSE replace_var(SubSeq(template, i, MatchEnd(template, i)),
                     SubSeq(template, i + 2, MatchEnd(template, i) - 2),
                     context, nested)
         \o ReSub(template, MatchEnd(template, i) + 1, context, nested)

StepExecutor_interpolate_template(template, context) ==
    ReSub(template, 1, context, TRUE)

LLMService_interpolate_template(template, context) ==
    ReSub(template, 1, context, FALSE)

ToolRegistry_interpolate_template(template, context) ==
    ReSub(template, 1, context, FALSE)

\* list values are left out: no config of the model carries one
RECURSIVE _interpolate_dict(_, _)
_interpolate_dict(config, context) ==
    [i \in DOMAIN config |->
        <<config[i][1],
          CASE config[i][2].t = "str" ->
                   TStr(ToolRegistry_interpolate_template(config[i][2].v, context))
            [] config[i][2].t = "dict" ->
                   TDict(_interpolate_dict(config[i][2].v, context))
            [] OTHER -> config[i][2]>>]

(***************************************************************************)
(* The interpolators alone: the executor's pass over an agent prompt       *)
(* followed by the LLM service's pass with the empty context, and the      *)
(* registry's pass over a tool config, on templates made of at most        *)
(* MaxPieces pieces and on five contexts.                                  *)
(***************************************************************************)
Placeholder(path) == <<"{", "{">> \o path \o <<"}", "}">>

Pieces ==
    {<<"t">>, <<"{">>, <<"}">>,
     Placeholder(<<"a">>), Placeholder(<<" ", "a", " ">>), Placeholder(<<"b">>),
     Placeholder(<<"d">>), Placeholder(<<"x">>), Placeholder(<<" ">>),
     Placeholder(<<"a", ".", "b">>), Placeholder(<<"a", ".", "d">>),
     Placeholder(<<"c", ".", "a">>)}

RECURSIVE Concat(_)
Concat(ps) == IF ps = <<>> THEN <<>> ELSE Head(ps) \o Concat(Tail(ps))

Templates == {Concat(ps) : ps \in SeqsUpTo(Pieces, MaxPieces)}

ContextNames == {"empty", "flat", "nested", "shadow", "outer"}

Context(name) ==
    CASE name = "empty" -> <<>>
      [] name = "flat" ->
            <<<<<<"a">>, TStr(<<"v">>)>>,
              <<<<"b">>, TStr(Placeholder(<<"a">>))>>,
              <<<<"d">>, TNone>>>>
      [] name = "nested" ->
            <<<<<<"a">>, TDict(<<<<<<"b">>, TStr(<<"v">>)>>>>)>>,
              <<<<"c">>, TDict(<<<<<<"d">>, TStr(<<"w">>)>>,
                                 <<<<"b">>, TStr(<<"u">>)>>>>)>>>>
      [] name = "shadow" ->
            <<<<<<"c">>, TDict(<<<<<<"a">>, TStr(<<"w">>)>>>>)>>,
              <<<<"a">>, TStr(<<"v">>)>>>>
      [] name = "outer" ->
            <<<<<<"o">>, TDict(<<<<<<"a">>, TDict(<<<<<<"b">>, TStr(<<"v">>)>>>>)>>,
                                 <<<<"d">>, TStr(Placeholder(<<"x">>))>>>>)>>>>

NoTplOut == [prompt |-> <<>>, sent |-> <<>>, config |-> <<>>]

TplInit ==
    /\ tplIn \in [template : Templates, ctx : ContextNames]
    /\ tplOut = NoTplOut
    /\ tplPc = "call"
    /\ SortIdle
    /\ ToolIdle
    /\ LLMIdle
    /\ RunIdle

\* _execute_agent_step: prompt = self._interpolate_template(prompt_template, inputs)
AgentPrompt ==
    /\ tplPc = "call"
    /\ tplOut' = [tplOut EXCEPT !.prompt =
                     StepExecutor_interpolate_template(tplIn.template, Context(tplIn.ctx))]
    /\ tplPc' = "prompt"
    /\ UNCHANGED <<tplIn, sortVars, toolVars, llmVars, runVars>>

\* LLMService.generate: prompt = self._interpolate_template(prompt, {})
ServicePass ==
    /\ tplPc = "prompt"
    /\ tplOut' = [tplOut EXCEPT !.sent =
                     LLMService_interpolate_template(tplOut.prompt, <<>>)]
    /\ tplPc' = "sent"
    /\ UNCHANGED <<tplIn, sortVars, toolVars, llmVars, runVars>>

\* execute_tool: interpolated_config = self._interpolate_dict(config, inputs)
ToolConfig ==
    /\ tplPc = "call"
    /\ tplOut' = [tplOut EXCEPT !.config =
                     _interpolate_dict(<<<<K_query, TStr(tplIn.template)>>>>,
                                       Context(tplIn.ctx))]
    /\ tplPc' = "config"
    /\ UNCHANGED <<tplIn, sortVars, toolVars, llmVars, runVars>>

TplNext == AgentPrompt \/ ServicePass \/ ToolConfig

SpecTpl == TplInit /\ [][TplNext]_vars

(***************************************************************************)
(* ToolRegistry.execute_tool                                               *)
(***************************************************************************)
ToolValue(tool, key) == <<"tool", tool, key>>

\* web_search raises only with a search client configured; the competitor
\* analysis calls WebSearchTool.search itself when it is given no
\* searchResults (a searchResults string that json.loads rejects counts as
\* none), and swallows a failure of its LLM call.  The field `invoked` of the
\* outcome lists the tools that ran.
execute_tool(tool_name, config, tavily, b) ==
    IF tool_name = WebSearch
    THEN (IF tavily /\ ~b.ok
          THEN Raise(<<"Web search error: ", "vendor error">>)
          ELSE Return(<<<<K_result, ToolValue("web_search", "result")>>,
                        <<K_query, ToolValue("web_search", "query")>>,
                        <<K_sources, ToolValue("web_search", "sources")>>>>))
         @@ [invoked |-> <<WebSearch>>]
    ELSE IF tool_name = CompetitorAnalysis
    THEN IF "searchResults" \in DOMAIN config /\ ParsesAsJson(config.searchResults)
         THEN Return(<<<<K_result, ToolValue("competitor_analysis", "result")>>,
                       <<K_competitors, ToolValue("competitor_analysis", "competitors")>>,
                       <<K_analysis, ToolValue("competitor_analysis", "analysis")>>>>)
              @@ [invoked |-> <<CompetitorAnalysis>>]
         ELSE (IF tavily /\ ~b.ok
               THEN Raise(<<"Web search error: ", "vendor error">>)
               ELSE Return(<<<<K_result, ToolValue("competitor_analysis", "result")>>,
                             <<K_competitors, ToolValue("competitor_analysis", "competitors")>>,
                             <<K_analysis, ToolValue("competitor_analysis", "analysis")>>>>))
              @@ [invoked |-> <<CompetitorAnalysis, WebSearch>>]
    ELSE Raise(<<"Unknown tool: ", tool_name>>) @@ [invoked |-> <<>>]

(***************************************************************************)
(* StepExecutor.execute_step and its three step kinds.                     *)
(***************************************************************************)
ToolName(step) == Get(step.config, "tool", step.id)

\* a tool step that asks the registry without looking at the policy
_execute_tool_step_unrestricted(step, policies, tavily, b) ==
    LET tool_name == ToolName(step)
        r == execute_tool(tool_name, step.config, tavily, b)
    IN  (IF r.ok THEN Return(FormatResult(step.id, r.out))
         ELSE Raise(<<"Tool execution error: ", r.msg>>))
        @@ [registry |-> <<tool_name>>, invoked |-> r.invoked]

\* the field `registry` of the outcome lists the tool_registry.execute_tool
\* calls made on the way, the field `invoked` the tools that ran in them
_execute_tool_step(step, policies, tavily, b) ==
    LET tool_name == ToolName(step)
        allowed   == Get(policies, "allowedTools", {})
    IN  IF allowed # {} /\ tool_name \notin allowed
        THEN Raise(<<"Tool ", tool_name, " is not allowed by policy">>)
                @@ [registry |-> <<>>, invoked |-> <<>>]
        ELSE LET r == execute_tool(tool_name, step.config, tavily, b)
             IN  (IF r.ok THEN Return(FormatResult(step.id, r.out))
                  ELSE Raise(<<"Tool execution error: ", r.msg>>))
                 @@ [registry |-> <<tool_name>>, invoked |-> r.invoked]

_execute_agent_step(step, llm, b) ==
    LET r == LLMGenerate(Get(step.config, "provider", "auto"), llm, b)
    IN  IF ~r.ok THEN Raise(<<"LLM execution error: ", r.msg>>)
        ELSE LET c   == r.out.content
                 out == IF LooksLikeJson(c) /\ ParsesAsJson(c)
                        THEN <<"json", c>> ELSE Str(c)
             IN  Return(DictOf(<<
                    <<step.id \o Underscore \o K_output, out>>,
                    <<K_content, Str(c)>>,
                    <<K_input_tokens, Num(r.out.usage.input_tokens)>>,
                    <<K_output_tokens, Num(r.out.usage.output_tokens)>>,
                    <<K_total_tokens, Num(r.out.usage.total_tokens)>>,
                    <<K_cost, Num(r.out.usage.cost)>>,
                    <<K_model, r.out.model>> >>))

_execute_condition_step(step) ==
    Return(DictOf(<< <<K_condition_result, <<"bool", TRUE>> >>,
                     <<K_condition, Str(Get(step.config, "condition", "true"))>> >>))

execute_step(step, policies, llm, tavily, b) ==
    IF step.type = "tool" THEN _execute_tool_step(step, policies, tavily, b)
    ELSE IF step.type = "agent" THEN _execute_agent_step(step, llm, b)
    ELSE IF step.type = "condition" THEN _execute_condition_step(step)
    ELSE Raise(<<"Unknown step type: ", step.type>>)

(***************************************************************************)
(* The state sync sink: _update_run_status, _create_step_run,              *)
(* _update_step_run, _create_approval.  A Redis command that fails raises  *)
(* out of the sink (redis_client.set is not guarded); a failing REST call  *)
(* is swallowed.                                                           *)
(***************************************************************************)
\* a run key that leaves the run id out
RunKeyShared(r) == [k |-> "run:update", run |-> "shared"]

\* f"run:update:{run_id}"
RunKey(r) == [k |-> "run:update", run |-> r]

StepKey(id) == [k |-> "step_run", id |-> id]

ApprovalKey(r, s) == [k |-> "approval", run |-> r, step |-> s]

\* f"{run_id}:step:{step_id}"
CompositeId(r, s) == [origin |-> "local", run |-> r, step |-> s]

\* the id the control plane answers a 201 with
ServerId(r, s) == [origin |-> "server", run |-> r, step |-> s]

\* len(step_run_id.split(":")) == 3
HasThreeParts(id) == id.origin = "local"

RedisError == <<"Redis: ", "connection error">>

RedisOutcomes == IF env.redisFaults > 0 THEN {TRUE, FALSE} ELSE {TRUE}

RedisAfter(ok, key, val) == IF ok THEN (key :> val) @@ redis ELSE redis

EnvAfter(ok) ==
    IF ok THEN env ELSE [env EXCEPT !.redisFaults = @ - 1, !.redisFailed = TRUE]

Patch(target, body) ==
    [method |-> "PATCH", target |-> target, body |-> body, ok |-> env.api = "up"]

Written(tk, key, val) == [tk EXCEPT !.writes = Append(@, [key |-> key, val |-> val])]

\* _update_run_status once its Redis command has succeeded
RunStatusWritten(tk, val) ==
    [Written(tk, RunKey(tk.run_id), val) EXCEPT
        !.calls = Append(@, Patch(RunKey(tk.run_id), val))]

\* _update_step_run once its Redis command has succeeded: the REST call is
\* made only for an id of three colon-separated parts
StepRunWritten(tk, id, val) ==
    [Written(tk, StepKey(id), val) EXCEPT
        !.calls = IF HasThreeParts(id) THEN Append(@, Patch(StepKey(id), val)) ELSE @]

\* _create_step_run: no Redis command; the POST answers 201 with an id, or fails
PostOutcomes == IF env.api = "up" THEN {"created", "failed"} ELSE {"failed"}

StepRunCreated(tk, step_data, outcome) ==
    LET sid == step_data.stepId
        id  == IF outcome = "created" THEN ServerId(tk.run_id, sid)
               ELSE CompositeId(tk.run_id, sid)
    IN  [tk EXCEPT
            !.calls = Append(@, [method |-> "POST", target |-> tk.run_id,
                                 body |-> step_data, ok |-> outcome = "created"]),
            !.step_runs = (sid :> id) @@ @]

(***************************************************************************)
(* PipelineOrchestrator.execute_pipeline, one action per sink or executor  *)
(* call.                                                                   *)
(***************************************************************************)
\* nodes = {node["id"]: node for node in steps_dag["nodes"]}
NodeOf(p, id) ==
    LET ns == p.steps.nodes
    IN  ns[CHOOSE i \in DOMAIN ns : ns[i].id = id]

CurrentStepId(tk) == tk.order[tk.idx]

AccountingKeys ==
    {K_cost, K_input_tokens, K_output_tokens, K_total_tokens, K_model}

\* a filter that forgets the key `model`
StripAccountingButModel(out) ==
    [k \in DOMAIN out \ (AccountingKeys \ {K_model}) |-> out[k]]

\* a token count that prefers output_tokens to total_tokens
StepTokensPreferOutput(out) ==
    Get(out, K_output_tokens, Get(out, K_total_tokens, Num(0)))[2]

\* output_to_store = {k: v for k, v in step_output.items() if k not in [...]}
StripAccounting(out) == [k \in DOMAIN out \ AccountingKeys |-> out[k]]

\* step_output.get("cost", 0.0)
StepCost(out) == Get(out, K_cost, Num(0))[2]

\* step_output.get("total_tokens", step_output.get("output_tokens", 0))
StepTokens(out) == Get(out, K_total_tokens, Get(out, K_output_tokens, Num(0)))[2]

\* lines 270-279: extract, strip, accumulate
Accounted(tk, out) ==
    [tk EXCEPT !.raw_output = out,
               !.step_cost = StepCost(out),
               !.step_tokens = StepTokens(out),
               !.step_output = StripAccounting(out),
               !.total_cost = @ + StepCost(out),
               !.total_tokens = @ + StepTokens(out)]

BackendOutcomes == IF env.backendFaults THEN BackendOk \cup {BackendRaise} ELSE BackendOk

Failing(tk, pc, msg) == [tk EXCEPT !.pc = pc, !.exc = msg]

\* an action whose one Redis command succeeds (the task becomes okTask) or
\* raises (the task becomes failTask)
RedisStep(t, key, val, okTask, failTask) ==
    /\ \E ok \in RedisOutcomes :
          /\ redis' = RedisAfter(ok, key, val)
          /\ env' = EnvAfter(ok)
          /\ task' = [task EXCEPT ![t] = IF ok THEN okTask ELSE failTask]
    /\ UNCHANGED <<http, sortVars, toolVars, llmVars, tplVars>>

\* line 225, outside the try: a failure escapes execute_pipeline
Begin(t) ==
    /\ task[t].pc = "scheduled"
    /\ LET tk  == task[t]
           val == [status |-> "running"]
       IN  RedisStep(t, RunKey(tk.run_id), val,
                     [RunStatusWritten(tk, val) EXCEPT !.pc = "sort"],
                     Failing(tk, "raised", RedisError))

\* lines 229-236
Schedule(t) ==
    /\ task[t].pc = "sort"
    /\ LET tk == task[t]
           r  == topological_sort(tk.pipeline.steps)
       IN  task' = [task EXCEPT ![t] =
              IF ~r.ok THEN Failing(tk, "handler", <<"Pipeline DAG contains cycles">>)
              ELSE [tk EXCEPT !.order = r.order,
                              !.current_outputs = tk.inputs,
                              !.idx = 1,
                              !.pc = IF r.order = <<>> THEN "finish" ELSE "create"]]
    /\ UNCHANGED <<env, redis, http, sortVars, toolVars, llmVars, tplVars>>

\* lines 239-252: one iteration of the record-creation loop
CreateStepRun(t) ==
    /\ task[t].pc = "create"
    /\ LET tk  == task[t]
           sid == CurrentStepId(tk)
       IN  IF sid \notin NodeIds(tk.pipeline.steps)
           THEN task' = [task EXCEPT ![t] = Failing(tk, "handler", <<"KeyError: ", sid>>)]
           ELSE \E outcome \in PostOutcomes :
                  LET step == NodeOf(tk.pipeline, sid)
                      step_run_data ==
                         [stepId |-> sid,
                          stepType |-> step.type,
                          toolUsed |-> IF step.type = "tool"
                                       THEN Get(step.config, "tool", None) ELSE None,
                          status |-> "pending",
                          orderIndex |-> tk.idx - 1,
                          inputs |-> tk.current_outputs]
                      made == StepRunCreated(tk, step_run_data, outcome)
                  IN  task' = [task EXCEPT ![t] =
                         IF tk.idx < Len(tk.order)
                         THEN [made EXCEPT !.idx = @ + 1]
                         ELSE [made EXCEPT !.idx = 1, !.pc = "walk"]]
    /\ UNCHANGED <<env, redis, http, sortVars, toolVars, llmVars, tplVars>>

\* a walk that calls the executor without setting the step to running
StepRunningSkipped(t) ==
    /\ task[t].pc = "walk"
    /\ task' = [task EXCEPT ![t].pc = "execute"]
    /\ UNCHANGED <<env, redis, http, sortVars, toolVars, llmVars, tplVars>>

\* line 262, inside the outer try only
StepRunning(t) ==
    /\ task[t].pc = "walk"
    /\ LET tk  == task[t]
           id  == tk.step_runs[CurrentStepId(tk)]
           val == [status |-> "running"]
       IN  RedisStep(t, StepKey(id), val,
                     [StepRunWritten(tk, id, val) EXCEPT !.pc = "execute"],
                     Failing(tk, "handler", RedisError))

\* lines 282-286: the approval branch, after the executor has returned
ApprovalGate(t, tk, ok1, ok2) ==
    LET sid    == CurrentStepId(tk)
        status == [status |-> "needs_approval"]
        marker == [decision |-> "pending"]
        first  == RunStatusWritten(tk, status)
    IN  IF ~ok1
        THEN /\ task' = [task EXCEPT ![t] = Failing(tk, "step_failed", RedisError)]
             /\ redis' = redis
             /\ env' = EnvAfter(FALSE)
        ELSE IF ~ok2
        THEN /\ task' = [task EXCEPT ![t] = Failing(first, "step_failed", RedisError)]
             /\ redis' = RedisAfter(TRUE, RunKey(tk.run_id), status)
             /\ env' = EnvAfter(FALSE)
        ELSE /\ task' = [task EXCEPT ![t] =
                   [Written(first, ApprovalKey(tk.run_id, sid), marker) EXCEPT
                       !.pc = "returned",
                       !.result = [status |-> "needs_approval"]]]
             /\ redis' = (ApprovalKey(tk.run_id, sid) :> marker)
                            @@ RedisAfter(TRUE, RunKey(tk.run_id), status)
             /\ env' = env

\* lines 264-286: the executor call and what follows it up to the next sink call
ExecuteStep(t) ==
    /\ task[t].pc = "execute"
    /\ \E b \in BackendOutcomes, ok1 \in RedisOutcomes, ok2 \in RedisOutcomes :
          LET tk     == task[t]
              step   == NodeOf(tk.pipeline, CurrentStepId(tk))
              r      == execute_step(step, tk.pipeline.policies, env.llm, env.tavily, b)
              called == [tk EXCEPT !.dispatched =
                            Append(@, [step |-> step.id, ok |-> r.ok,
                                       msg |-> IF r.ok THEN <<>> ELSE r.msg,
                                       registry |-> Get(r, "registry", <<>>),
                                       invoked |-> Get(r, "invoked", <<>>)])]
          IN  IF ~r.ok
              THEN /\ task' = [task EXCEPT ![t] = Failing(called, "step_failed", r.msg)]
                   /\ UNCHANGED <<env, redis>>
              ELSE IF step.type = "approval"
              THEN ApprovalGate(t, Accounted(called, r.out), ok1, ok2)
              ELSE /\ task' = [task EXCEPT ![t] =
                         [Accounted(called, r.out) EXCEPT !.pc = "step_completed"]]
                   /\ UNCHANGED <<env, redis>>
    /\ UNCHANGED <<http, sortVars, toolVars, llmVars, tplVars>>

\* a walk that moves on to the next node without persisting the step as completed
StepCompletedUnrecorded(t) ==
    /\ task[t].pc = "step_completed"
    /\ LET tk == task[t]
           merged == [tk EXCEPT !.current_outputs = Merge(@, tk.step_output)]
       IN  task' = [task EXCEPT ![t] =
              IF tk.idx < Len(tk.order)
              THEN [merged EXCEPT !.idx = @ + 1, !.pc = "walk"]
              ELSE [merged EXCEPT !.pc = "finish"]]
    /\ UNCHANGED <<env, redis, http, sortVars, toolVars, llmVars, tplVars>>

\* lines 289-302: persist the step as completed, then merge its output
StepCompleted(t) ==
    /\ task[t].pc = "step_completed"
    /\ LET tk  == task[t]
           id  == tk.step_runs[CurrentStepId(tk)]
           val == [status |-> "completed", outputs |-> tk.step_output,
                   cost |-> tk.step_cost, tokensUsed |-> tk.step_tokens]
           merged == [StepRunWritten(tk, id, val) EXCEPT
                         !.current_outputs = Merge(@, tk.step_output)]
       IN  RedisStep(t, StepKey(id), val,
                     IF tk.idx < Len(tk.order)
                     THEN [merged EXCEPT !.idx = @ + 1, !.pc = "walk"]
                     ELSE [merged EXCEPT !.pc = "finish"],
                     Failing(tk, "step_failed", RedisError))

\* lines 304-313: the inner handler persists the step as failed
StepFailed(t) ==
    /\ task[t].pc = "step_failed"
    /\ LET tk  == task[t]
           id  == tk.step_runs[CurrentStepId(tk)]
           val == [status |-> "failed", errorMessage |-> tk.exc]
       IN  RedisStep(t, StepKey(id), val,
                     [StepRunWritten(tk, id, val) EXCEPT !.pc = "run_failed"],
                     Failing(tk, "handler", RedisError))

\* an inner handler that records the failure and goes on with the next node
RunFailedContinues(t) ==
    /\ task[t].pc = "run_failed"
    /\ LET tk  == task[t]
           val == [status |-> "failed",
                   errorMessage |-> <<"Step ", CurrentStepId(tk), " failed: ", tk.exc>>]
       IN  RedisStep(t, RunKey(tk.run_id), val,
                     IF tk.idx < Len(tk.order)
                     THEN [RunStatusWritten(tk, val) EXCEPT !.idx = @ + 1, !.pc = "walk"]
                     ELSE [RunStatusWritten(tk, val) EXCEPT !.pc = "handler"],
                     Failing(tk, "handler", RedisError))

\* lines 316-325: the inner handler fails the run and re-raises
RunFailed(t) ==
    /\ task[t].pc = "run_failed"
    /\ LET tk  == task[t]
           val == [status |-> "failed",
                   errorMessage |-> <<"Step ", CurrentStepId(tk), " failed: ", tk.exc>>]
       IN  RedisStep(t, RunKey(tk.run_id), val,
                     [RunStatusWritten(tk, val) EXCEPT !.pc = "handler"],
                     Failing(tk, "handler", RedisError))

\* lines 341-350: the outer handler fails the run and re-raises
Handler(t) ==
    /\ task[t].pc = "handler"
    /\ LET tk  == task[t]
           val == [status |-> "failed", errorMessage |-> tk.exc]
       IN  RedisStep(t, RunKey(tk.run_id), val,
                     [RunStatusWritten(tk, val) EXCEPT !.pc = "raised"],
                     Failing(tk, "raised", RedisError))

\* lines 327-339
Finish(t) ==
    /\ task[t].pc = "finish"
    /\ LET tk  == task[t]
           val == [status |-> "completed", outputs |-> tk.current_outputs,
                   cost |-> tk.total_cost, tokensUsed |-> tk.total_tokens]
       IN  RedisStep(t, RunKey(tk.run_id), val,
                     [RunStatusWritten(tk, val) EXCEPT
                         !.pc = "returned",
                         !.result = [status |-> "completed",
                                     outputs |-> tk.current_outputs]],
                     Failing(tk, "handler", RedisError))

(***************************************************************************)
(* The HTTP handlers start_run and resume_run.                             *)
(***************************************************************************)
InFlight(t) == task[t].pc \notin {"idle", "returned", "raised"}

FreeTask == IF task["t1"].pc = "idle" THEN "t1" ELSE "t2"

\* background_tasks.add_task(orchestrator.execute_pipeline, run_id, pipeline, inputs)
Scheduled(via, r, body) ==
    [task EXCEPT ![FreeTask] =
        [IdleTask EXCEPT !.pc = "scheduled", !.via = via, !.run_id = r,
                         !.pipeline = body.pipeline, !.inputs = body.inputs]]

\* a check that takes an empty inputs map for a missing one
MissingOrEmpty(body) ==
    \/ "pipeline" \notin DOMAIN body
    \/ "inputs" \notin DOMAIN body
    \/ body.inputs = EmptyDict

Missing(body) == "pipeline" \notin DOMAIN body \/ "inputs" \notin DOMAIN body

\* the client sends a request while it still has one to send, a task slot is
\* free and, when it is a serial client, no execution is in flight
MaySend ==
    /\ env.requests > 0
    /\ \E t \in Tasks : task[t].pc = "idle"
    /\ env.serial => \A t \in Tasks : ~InFlight(t)

\* the client after a request for run r: a serial client may name a run
\* again, a concurrent one names each run once
Sent(r) ==
    [env EXCEPT !.requests = @ - 1,
                !.runIds = IF env.serial THEN @ ELSE @ \ {r}]

start_run ==
    /\ MaySend
    /\ \E r \in env.runIds, body \in StartBodies(env.pipelines) :
        /\ env' = Sent(r)
        /\ IF Missing(body)
          THEN /\ http' = [code |-> 400, detail |-> "Missing pipeline or inputs",
                            via |-> "start", body |-> body]
               /\ task' = task
          ELSE /\ http' = [code |-> 200, status |-> "accepted", runId |-> r,
                            via |-> "start", body |-> body]
               /\ task' = Scheduled("start", r, body)
    /\ UNCHANGED <<redis, sortVars, toolVars, llmVars, tplVars>>

resume_run ==
    /\ MaySend
    /\ \E r \in env.runIds, body \in ResumeBodies(env.pipelines) :
        /\ env' = Sent(r)
        /\ IF Missing(body)
          THEN /\ http' = [code |-> 400, detail |-> "Missing pipeline or inputs",
                            via |-> "resume", body |-> body]
               /\ task' = task
          ELSE IF Get(body, "decision", "") # "approved"
          THEN /\ http' = [code |-> 400, detail |-> "Run not approved",
                            via |-> "resume", body |-> body]
               /\ task' = task
          ELSE /\ http' = [code |-> 200, status |-> "resumed", runId |-> r,
                            via |-> "resume", body |-> body]
               /\ task' = Scheduled("resume", r, body)
    /\ UNCHANGED <<redis, sortVars, toolVars, llmVars, tplVars>>

Step(t) ==
    \/ Begin(t) \/ Schedule(t) \/ CreateStepRun(t) \/ StepRunning(t)
    \/ ExecuteStep(t) \/ StepCompleted(t) \/ StepFailed(t) \/ RunFailed(t)
    \/ Handler(t) \/ Finish(t)

Next == start_run \/ resume_run \/ \E t \in Tasks : Step(t)

\* which adapters LLMService.__init__ and WebSearchTool.__init__ construct
Credentials ==
    {[llm |-> [openai |-> FALSE, anthropic |-> FALSE], tavily |-> FALSE],
     [llm |-> [openai |-> TRUE, anthropic |-> FALSE], tavily |-> TRUE],
     [llm |-> [openai |-> FALSE, anthropic |-> TRUE], tavily |-> FALSE]}

Surroundings(requests, pipelines, faults, apis, backendFaults) ==
    {[requests |-> requests, pipelines |-> pipelines, redisFaults |-> f,
      redisFailed |-> FALSE, api |-> a, llm |-> c.llm, tavily |-> c.tavily,
      backendFaults |-> bf, serial |-> TRUE, runIds |-> RunIds] :
        f \in faults, a \in apis, c \in Credentials, bf \in backendFaults}

\* one request, and the execution it schedules, under every surrounding
Init ==
    /\ env \in Surroundings(1, Pipelines, 0..MaxRedisFaults, {"up", "down"}, BOOLEAN)
    /\ task = [t \in Tasks |-> IdleTask]
    /\ redis = <<>>
    /\ http = NoResponse
    /\ SortIdle
    /\ ToolIdle
    /\ LLMIdle
    /\ TplIdle

Spec == Init /\ [][Next]_vars

\* two requests in a row (a start and then a resume, among others) for the
\* approval-gate pipeline or the two-agent line, each sent when no execution
\* is in flight, with Redis and the model vendors healthy
ResumeInit ==
    /\ env \in Surroundings(2, {PipeS6, PipeS1}, {0}, {"up", "down"}, {FALSE})
    /\ task = [t \in Tasks |-> IdleTask]
    /\ redis = <<>>
    /\ http = NoResponse
    /\ SortIdle
    /\ ToolIdle
    /\ LLMIdle
    /\ TplIdle

SpecResume == ResumeInit /\ [][Next]_vars

\* two requests for two runs whose executions interleave at every sink and
\* executor call: the second request is handled while the first execution
\* is in flight, each on its own PipelineOrchestrator; the control plane is
\* down and the model vendor answers
ConcurrentRunIds == {"r1", "r2"}

ConcurrentInit ==
    /\ env \in {[e EXCEPT !.serial = FALSE, !.runIds = ConcurrentRunIds] :
                    e \in {x \in Surroundings(2, {PipeS6, PipeS1}, {0}, {"down"}, {FALSE}) :
                              x.llm.anthropic}}
    /\ task = [t \in Tasks |-> IdleTask]
    /\ redis = <<>>
    /\ http = NoResponse
    /\ SortIdle
    /\ ToolIdle
    /\ LLMIdle
    /\ TplIdle

SpecConcurrent == ConcurrentInit /\ [][Next]_vars

(***************************************************************************)
(* C1: whenever topological_sort returns an order O, every edge (u,v) of   *)
(* the pipeline has u placed strictly before v in O.                       *)
(***************************************************************************)
PlacedBefore(u, v, O) == \E i, j \in DOMAIN O : i < j /\ O[i] = u /\ O[j] = v

C1_EdgesRespected ==
    sortPc = "returned" =>
        \A k \in DOMAIN dag.edges :
            PlacedBefore(dag.edges[k].from, dag.edges[k].to, kahn.result)

(***************************************************************************)
(* C7: for a tool step with id N, each raw key k appears in the step       *)
(* output as N_k, unless k already begins with N followed by an            *)
(* underscore, in which case it is kept unchanged; a key that begins with  *)
(* N but not with N_ is still prefixed.                                    *)
(***************************************************************************)
NamespacedKey(id, key) ==
    IF StartsWith(key, id \o Underscore) THEN key ELSE id \o Underscore \o key

C7_KeysNamespaced ==
    toolPc = "returned" =>
        \A i \in DOMAIN toolIn.raw :
            LET k == NamespacedKey(toolIn.id, toolIn.raw[i][1])
            IN  k \in DOMAIN toolOut /\ toolOut[k] = toolIn.raw[i][2]

(***************************************************************************)
(* What the claims read off a task: its history of Redis commands and REST *)
(* calls.                                                                  *)
(***************************************************************************)
Finished(t) == task[t].pc \in {"returned", "raised"}

RunWrites(tk) == SelectSeq(tk.writes, LAMBDA w : w.key = RunKey(tk.run_id))

StatusesOf(ws) == [i \in DOMAIN ws |-> ws[i].val.status]

Posts(tk) == SelectSeq(tk.calls, LAMBDA c : c.method = "POST")

CompletedStepWrites(tk) ==
    SelectSeq(tk.writes, LAMBDA w : w.key.k = "step_run" /\ w.val.status = "completed")

\* some Redis command of the task set the step's record to `status`
StepWritten(tk, sid, status) ==
    /\ sid \in DOMAIN tk.step_runs
    /\ \E i \in DOMAIN tk.writes :
          /\ tk.writes[i].key = StepKey(tk.step_runs[sid])
          /\ tk.writes[i].val.status = status

RECURSIVE SumOf(_, _)
SumOf(ws, field) ==
    IF ws = <<>> THEN 0 ELSE Head(ws).val[field] + SumOf(Tail(ws), field)

RECURSIVE Closure(_)
Closure(R) ==
    LET R2 == R \cup {<<p[1], q[2]>> : p \in R, q \in {r \in R : TRUE}}
        R3 == R \cup {pq \in R2 : \E p \in R, q \in R :
                                    p[2] = q[1] /\ pq = <<p[1], q[2]>>}
    IN  IF R3 = R THEN R ELSE Closure(R3)

\* the edges contain a cycle (a self-loop included)
HasCycle(d) ==
    LET R == Closure({<<d.edges[i].from, d.edges[i].to>> : i \in DOMAIN d.edges})
    IN  \E p \in R : p[1] = p[2]

\* the scheduler gives an order of known nodes and the executor returned for
\* each of them
AllStepsSucceeded(tk) ==
    LET r == topological_sort(tk.pipeline.steps)
    IN  /\ r.ok
        /\ Range(r.order) \subseteq NodeIds(tk.pipeline.steps)
        /\ \A j \in DOMAIN tk.dispatched : tk.dispatched[j].ok
        /\ \A i \in DOMAIN r.order :
              \E j \in DOMAIN tk.dispatched : tk.dispatched[j].step = r.order[i]

(***************************************************************************)
(* C2: for every pipeline whose edges contain a cycle (a self-loop         *)
(* included, whatever other edges there are) the scheduler fails, the run  *)
(* goes from running to failed and no step record is created.              *)
(* Read on executions in which no Redis command failed.                    *)
(***************************************************************************)
C2_CyclicRejected ==
    \A t \in Tasks :
        (Finished(t) /\ ~env.redisFailed /\ HasCycle(task[t].pipeline.steps)) =>
            /\ task[t].pc = "raised"
            /\ ~topological_sort(task[t].pipeline.steps).ok
            /\ StatusesOf(RunWrites(task[t])) = <<"running", "failed">>
            /\ Posts(task[t]) = <<>>

(***************************************************************************)
(* C3: when the walk reaches an approval node, the run is set to           *)
(* needs_approval, the approval marker (decision pending) is written,      *)
(* execute_pipeline returns needs_approval, and every node after the       *)
(* approval node stays pending.  Read on executions in which no Redis      *)
(* command failed.                                                         *)
(***************************************************************************)
ReachedApproval(tk) ==
    {tk.dispatched[j].step : j \in {i \in DOMAIN tk.dispatched :
        NodeOf(tk.pipeline, tk.dispatched[i].step).type = "approval"}}

C3_ApprovalSuspends ==
    \A t \in Tasks :
        (Finished(t) /\ ~env.redisFailed) =>
            \A g \in ReachedApproval(task[t]) :
                LET tk == task[t]
                IN  /\ tk.pc = "returned"
                    /\ tk.result.status = "needs_approval"
                    /\ RunKey(tk.run_id) \in DOMAIN redis
                    /\ redis[RunKey(tk.run_id)].status = "needs_approval"
                    /\ ApprovalKey(tk.run_id, g) \in DOMAIN redis
                    /\ redis[ApprovalKey(tk.run_id, g)].decision = "pending"
                    /\ \A i \in DOMAIN tk.order :
                          i > IndexOf(g, tk.order) =>
                              \A st \in {"running", "completed", "failed"} :
                                  ~StepWritten(tk, tk.order[i], st)

(***************************************************************************)
(* C4: for the pipeline a (agent) -> g (approval) -> b (agent) with every  *)
(* agent call succeeding, once the execution scheduled by start has ended  *)
(* and the execution scheduled by a resume with decision approved has      *)
(* ended too, step b is completed and the run's status is completed.       *)
(***************************************************************************)
C4_ResumeCompletes ==
    LET s == task["t1"]
        r == task["t2"]
    IN  (/\ Finished("t1") /\ s.via = "start" /\ s.pipeline = PipeS6
         /\ Finished("t2") /\ r.via = "resume" /\ r.pipeline = PipeS6
         /\ r.run_id = s.run_id
         /\ \A j \in DOMAIN s.dispatched :
               NodeOf(PipeS6, s.dispatched[j].step).type = "agent" => s.dispatched[j].ok
         /\ \A j \in DOMAIN r.dispatched :
               NodeOf(PipeS6, r.dispatched[j].step).type = "agent" => r.dispatched[j].ok)
        => /\ StepWritten(r, IdB, "completed")
           /\ redis[RunKey(r.run_id)].status = "completed"

(***************************************************************************)
(* C5: for every run that ends completed, the cost written on the run is   *)
(* the sum of the costs persisted on its completed steps and its           *)
(* tokensUsed the sum of their tokensUsed, a step's tokensUsed being       *)
(* total_tokens if its envelope has it, else output_tokens, else 0.        *)
(***************************************************************************)
C5_TotalsAreSums ==
    \A t \in Tasks :
        LET tk == task[t]
        IN  /\ (tk.pc = "returned" /\ tk.result.status = "completed") =>
                  LET last == tk.writes[Len(tk.writes)]
                  IN  /\ last.key = RunKey(tk.run_id)
                      /\ last.val.status = "completed"
                      /\ last.val.cost = SumOf(CompletedStepWrites(tk), "cost")
                      /\ last.val.tokensUsed = SumOf(CompletedStepWrites(tk), "tokensUsed")
            /\ \A i \in DOMAIN tk.writes :
                  (tk.writes[i].key.k = "step_run"
                     /\ tk.writes[i].val.status = "completed"
                     /\ i = Len(tk.writes)) =>
                      tk.writes[i].val.tokensUsed =
                         IF K_total_tokens \in DOMAIN tk.raw_output
                         THEN tk.raw_output[K_total_tokens][2]
                         ELSE IF K_output_tokens \in DOMAIN tk.raw_output
                         THEN tk.raw_output[K_output_tokens][2]
                         ELSE 0

\* a run completed with two completed steps that both cost something
C5_Witness ==
    \E t \in Tasks :
        LET tk == task[t]
            ws == CompletedStepWrites(tk)
        IN  /\ tk.pc = "returned" /\ tk.result.status = "completed"
            /\ Len(ws) = 2
            /\ ws[1].val.cost > 0 /\ ws[2].val.cost > 0
            /\ ws[1].val.tokensUsed > 0 /\ ws[2].val.tokensUsed > 0
            /\ tk.writes[Len(tk.writes)].val.cost = ws[1].val.cost + ws[2].val.cost

(***************************************************************************)
(* C6: for every step of every run, the keys cost, input_tokens,           *)
(* output_tokens, total_tokens and model are absent from the outputs       *)
(* persisted on the step and from the output envelope merged into the      *)
(* context of the steps after it (so the context holds such a key only if  *)
(* the run's inputs brought it, with the inputs' value).                   *)
(***************************************************************************)
C6_NoAccountingKeys ==
    \A t \in Tasks :
        LET tk == task[t]
        IN  /\ \A i \in DOMAIN tk.writes :
                  (tk.writes[i].key.k = "step_run"
                     /\ "outputs" \in DOMAIN tk.writes[i].val) =>
                      DOMAIN tk.writes[i].val.outputs \cap AccountingKeys = {}
            /\ tk.pc = "step_completed" =>
                  DOMAIN tk.step_output \cap AccountingKeys = {}
            /\ \A k \in DOMAIN tk.current_outputs \cap AccountingKeys :
                  k \in DOMAIN tk.inputs /\ tk.current_outputs[k] = tk.inputs[k]

\* an agent step whose envelope held all five keys has been persisted as
\* completed and merged
C6_Witness ==
    \E t \in Tasks :
        LET tk == task[t]
        IN  /\ Len(tk.writes) > 0
            /\ tk.writes[Len(tk.writes)].key.k = "step_run"
            /\ tk.writes[Len(tk.writes)].val.status = "completed"
            /\ AccountingKeys \subseteq DOMAIN tk.raw_output
            /\ K_content \in DOMAIN tk.writes[Len(tk.writes)].val.outputs
            /\ K_content \in DOMAIN tk.current_outputs
            /\ tk.current_outputs[K_content] = tk.raw_output[K_content]

(***************************************************************************)
(* C8: with the control plane unreachable for the whole run and every step *)
(* succeeding, the run reaches completed and every transition (step        *)
(* created as pending, step running, step completed, run running, run      *)
(* completed) is written to Redis.  Read on executions in which no Redis   *)
(* command failed.                                                         *)
(***************************************************************************)
C8_DegradedSyncInRedis ==
    \A t \in Tasks :
        (Finished(t) /\ env.api = "down" /\ ~env.redisFailed
            /\ AllStepsSucceeded(task[t])) =>
            LET tk == task[t]
            IN  /\ tk.pc = "returned"
                /\ tk.result.status = "completed"
                /\ StatusesOf(RunWrites(tk)) = <<"running", "completed">>
                /\ \A i \in DOMAIN tk.order :
                      \A st \in {"pending", "running", "completed"} :
                          StepWritten(tk, tk.order[i], st)

(***************************************************************************)
(* C9: a failing Redis command is never fatal to the run: wherever it      *)
(* fails, the remaining nodes are still executed and execute_pipeline      *)
(* returns what it returns with Redis healthy (completed, when the         *)
(* scheduler gives an order and every executor call returns).              *)
(***************************************************************************)
C9_RedisNeverFatal ==
    \A t \in Tasks :
        (Finished(t) /\ AllStepsSucceeded(task[t])) =>
            /\ task[t].pc = "returned"
            /\ task[t].result.status = "completed"
            /\ Len(task[t].dispatched) = Len(task[t].order)

(***************************************************************************)
(* C10: for every node, the inputs snapshot recorded on its step record is *)
(* the context envelope as it is when the step is set to running.          *)
(***************************************************************************)
PostedInputs(tk, sid) ==
    LET ps == Posts(tk)
    IN  ps[CHOOSE i \in DOMAIN ps : ps[i].body.stepId = sid].body.inputs

C10_SnapshotAtRunning ==
    \A t \in Tasks :
        task[t].pc = "execute" =>
            PostedInputs(task[t], CurrentStepId(task[t])) = task[t].current_outputs

(***************************************************************************)
(* C11: in any execution of a run, each node is dispatched to the step     *)
(* executor at most once, and no node is dispatched after some node has    *)
(* failed or after an approval gate has been reached.                      *)
(***************************************************************************)
C11_DispatchedAtMostOnce ==
    \A t \in Tasks :
        LET d == task[t].dispatched
        IN  /\ \A i, j \in DOMAIN d : i # j => d[i].step # d[j].step
            /\ \A i \in DOMAIN d :
                  (~d[i].ok \/ NodeOf(task[t].pipeline, d[i].step).type = "approval")
                      => i = Len(d)

\* an execution has ended after a node failed, with a node before it
\* dispatched and a node after it never dispatched
C11_Witness ==
    \E t \in Tasks :
        LET d == task[t].dispatched
        IN  /\ Finished(t)
            /\ Len(d) >= 2
            /\ ~d[Len(d)].ok
            /\ Len(task[t].order) > Len(d)

(***************************************************************************)
(* C12: for every run id and every sequence of start and resume requests,  *)
(* consecutive run-level status writes are lifecycle transitions: the      *)
(* first write is running; after running comes completed, failed or        *)
(* needs_approval; after needs_approval comes only running; nothing is     *)
(* written after completed or failed.                                      *)
(***************************************************************************)
\* the run-level statuses written for the run, in order: the requests are
\* sent one after the other, the first execution being task t1
RunStatusLog ==
    StatusesOf(RunWrites(task["t1"])) \o StatusesOf(RunWrites(task["t2"]))

Lifecycle(a, b) ==
    \/ a = "running" /\ b \in {"completed", "failed", "needs_approval"}
    \/ a = "needs_approval" /\ b = "running"

C12_LifecycleOrder ==
    LET log == RunStatusLog
    IN  /\ log # <<>> => log[1] = "running"
        /\ \A i \in 1..(Len(log) - 1) : Lifecycle(log[i], log[i + 1])

(***************************************************************************)
(* C13: within one execution, the status updates emitted for a step follow *)
(* the order pending, running, then exactly one of completed or failed:    *)
(* never completed or failed without running, never both, and no update    *)
(* after completed or failed.                                              *)
(***************************************************************************)
\* the statuses emitted for step `sid`: that of the creation request, then
\* those of the updates
StepStatusLog(tk, sid) ==
    LET created == SelectSeq(Posts(tk), LAMBDA c : c.body.stepId = sid)
        updated == SelectSeq(tk.writes,
                             LAMBDA w : w.key = StepKey(tk.step_runs[sid]))
    IN  [i \in DOMAIN created |-> created[i].body.status] \o StatusesOf(updated)

C13_StepStatusOrder ==
    \A t \in Tasks :
        LET tk == task[t]
        IN  /\ \A sid \in DOMAIN tk.step_runs :
                  StepStatusLog(tk, sid) \in
                      {<<"pending">>, <<"pending", "running">>,
                       <<"pending", "running", "completed">>,
                       <<"pending", "running", "failed">>}
            \* every record is created before any step is updated
            /\ \A i \in DOMAIN tk.writes :
                  tk.writes[i].key.k = "step_run" =>
                      /\ Len(Posts(tk)) = Len(tk.order)
                      /\ \E sid \in DOMAIN tk.step_runs :
                            tk.writes[i].key = StepKey(tk.step_runs[sid])

\* an execution in which one step went pending, running, completed and the
\* next one pending, running, failed, a third staying pending
C13_Witness ==
    \E t \in Tasks :
        LET tk == task[t]
        IN  /\ Finished(t)
            /\ Len(tk.order) = 3
            /\ DOMAIN tk.step_runs = Range(tk.order)
            /\ StepStatusLog(tk, tk.order[1]) = <<"pending", "running", "completed">>
            /\ StepStatusLog(tk, tk.order[2]) = <<"pending", "running", "failed">>
            /\ StepStatusLog(tk, tk.order[3]) = <<"pending">>

(***************************************************************************)
(* C14: when a step with id X fails with message M, the step is persisted  *)
(* as failed with errorMessage M and the error message of the run in its   *)
(* final failed state has the form 'Step X failed: M'.  Read on executions *)
(* in which no Redis command failed.                                       *)
(***************************************************************************)
\* the executor call of the execution that raised, if any
StepFailure(tk) ==
    LET d == tk.dispatched
    IN  IF d # <<>> /\ ~d[Len(d)].ok THEN {d[Len(d)]} ELSE {}

StepFailedMessage(X, M) == <<"Step ", X, " failed: ", M>>

C14_FailureMessageForm ==
    \A t \in Tasks :
        (Finished(t) /\ ~env.redisFailed) =>
            \A f \in StepFailure(task[t]) :
                LET tk == task[t]
                IN  /\ \E i \in DOMAIN tk.writes :
                          /\ tk.writes[i].key = StepKey(tk.step_runs[f.step])
                          /\ tk.writes[i].val.status = "failed"
                          /\ tk.writes[i].val.errorMessage = f.msg
                    /\ RunKey(tk.run_id) \in DOMAIN redis
                    /\ redis[RunKey(tk.run_id)].status = "failed"
                    /\ redis[RunKey(tk.run_id)].errorMessage
                          = StepFailedMessage(f.step, f.msg)

(***************************************************************************)
(* C15: for every run that ends failed because of a step failure, the      *)
(* errorMessage of the run's terminal state is the message of the first    *)
(* step that failed (bare, or in the form 'Step X failed: M'), and no      *)
(* later event of the execution replaces the run's errorMessage with a     *)
(* different message.                                                      *)
(***************************************************************************)
RunFailedWrites(tk) ==
    SelectSeq(RunWrites(tk), LAMBDA w : w.val.status = "failed")

C15_FirstFailureMessageKept ==
    \A t \in Tasks :
        Finished(t) =>
            \A f \in StepFailure(task[t]) :
                LET tk == task[t]
                    ws == RunFailedWrites(tk)
                IN  /\ RunKey(tk.run_id) \in DOMAIN redis
                    /\ redis[RunKey(tk.run_id)].status = "failed"
                    /\ \/ redis[RunKey(tk.run_id)].errorMessage = f.msg
                       \/ redis[RunKey(tk.run_id)].errorMessage
                             = StepFailedMessage(f.step, f.msg)
                    /\ \A i \in DOMAIN ws : ws[i].val.errorMessage = ws[1].val.errorMessage

(***************************************************************************)
(* C16: a tool step whose resolved tool name (config.tool, else the node   *)
(* id) is not in a non-empty policies.allowedTools fails with a 'not       *)
(* allowed' message before the tool registry is invoked, and the run ends  *)
(* failed; when allowedTools is empty or absent, or holds the name, the    *)
(* step is not denied and the registry is invoked.                         *)
(***************************************************************************)
ResolvedToolName(step) ==
    IF "tool" \in DOMAIN step.config THEN step.config.tool ELSE step.id

AllowedTools(p) ==
    IF "allowedTools" \in DOMAIN p.policies THEN p.policies.allowedTools ELSE {}

DeniedByPolicy(p, step) ==
    AllowedTools(p) # {} /\ ResolvedToolName(step) \notin AllowedTools(p)

C16_ToolPolicy ==
    \A t \in Tasks :
        \A j \in DOMAIN task[t].dispatched :
            LET tk   == task[t]
                d    == tk.dispatched[j]
                step == NodeOf(tk.pipeline, d.step)
                name == ResolvedToolName(step)
            IN  step.type = "tool" =>
                  IF DeniedByPolicy(tk.pipeline, step)
                  THEN /\ ~d.ok
                       /\ d.msg = <<"Tool ", name, " is not allowed by policy">>
                       /\ d.registry = <<>>
                       /\ Finished(t) =>
                             /\ tk.pc = "raised"
                             /\ ~env.redisFailed =>
                                   redis[RunKey(tk.run_id)].status = "failed"
                  ELSE /\ d.registry = <<name>>
                       /\ d.ok \/ d.msg[1] # "Tool "

\* a denied tool step's execution has ended with the run failed
C16_Witness ==
    \E t \in Tasks :
        LET tk == task[t]
        IN  /\ Finished(t)
            /\ tk.dispatched # <<>>
            /\ NodeOf(tk.pipeline, tk.dispatched[1].step).type = "tool"
            /\ DeniedByPolicy(tk.pipeline, NodeOf(tk.pipeline, tk.dispatched[1].step))
            /\ tk.dispatched[1].registry = <<>>
            /\ redis[RunKey(tk.run_id)].status = "failed"

(***************************************************************************)
(* C17: a pipeline with an edge whose from or whose to is not the id of a  *)
(* node is rejected as malformed: the run goes to failed, no step record   *)
(* is created and no node is executed.  Read on executions in which no     *)
(* Redis command failed.                                                   *)
(***************************************************************************)
HasStrayEdge(d) ==
    \E i \in DOMAIN d.edges :
        d.edges[i].from \notin NodeIds(d) \/ d.edges[i].to \notin NodeIds(d)

C17_MalformedRejected ==
    \A t \in Tasks :
        (Finished(t) /\ ~env.redisFailed /\ HasStrayEdge(task[t].pipeline.steps)) =>
            /\ task[t].pc = "raised"
            /\ redis[RunKey(task[t].run_id)].status = "failed"
            /\ Posts(task[t]) = <<>>
            /\ task[t].dispatched = <<>>

(***************************************************************************)
(* C18: every run-level status update and every step-level mutation (the   *)
(* creation of the pending record and each update to running, completed or *)
(* failed) is dual-written: written to the Redis shadow key and attempted  *)
(* as a control-plane REST call, whichever id step creation returned.      *)
(***************************************************************************)
C18_DualWritten ==
    \A t \in Tasks :
        LET tk == task[t]
        IN  \* each status written to Redis is also sent to the control plane
            /\ \A i \in DOMAIN tk.writes :
                  tk.writes[i].key.k \in {"run:update", "step_run"} =>
                      \E j \in DOMAIN tk.calls :
                          /\ tk.calls[j].method = "PATCH"
                          /\ tk.calls[j].target = tk.writes[i].key
                          /\ tk.calls[j].body = tk.writes[i].val
            \* each record created on the control plane is also written to Redis
            /\ \A j \in DOMAIN tk.calls :
                  tk.calls[j].method = "POST" =>
                      StepWritten(tk, tk.calls[j].body.stepId, "pending")

(***************************************************************************)
(* C19: LLMService.generate selects the provider as follows: auto resolves *)
(* to OpenAI if initialised, else Anthropic if initialised, else Mock (so  *)
(* auto never fails for lack of a provider); openai or anthropic fails     *)
(* when that adapter is not initialised; mock always succeeds; any other   *)
(* provider name fails.                                                    *)
(***************************************************************************)
\* the adapter whose generate was called, read off the outcome
AdapterCalled(out) ==
    IF out.ok
    THEN IF out.out.model = Str("mock-llm") THEN "mock" ELSE out.out.model[2]
    ELSE IF out.msg[1] = "OpenAI API error: " THEN "openai"
    ELSE IF out.msg[1] = "Anthropic API error: " THEN "anthropic"
    ELSE "none"

C19_ProviderSelection ==
    llmPc \in {"returned", "raised"} =>
        LET p   == llmIn.provider
            llm == llmIn.llm
            a   == AdapterCalled(llmOut)
        IN  /\ p = "auto" =>
                  a = IF llm.openai THEN "openai"
                      ELSE IF llm.anthropic THEN "anthropic" ELSE "mock"
            /\ p = "openai" =>
                  IF llm.openai THEN a = "openai"
                  ELSE ~llmOut.ok /\ llmOut.msg = <<"OpenAI provider not initialized">>
            /\ p = "anthropic" =>
                  IF llm.anthropic THEN a = "anthropic"
                  ELSE ~llmOut.ok /\ llmOut.msg = <<"Anthropic provider not initialized">>
            /\ p = "mock" => llmOut.ok /\ a = "mock"
            /\ p = "other" =>
                  ~llmOut.ok /\ llmOut.msg = <<"Unknown provider: ", "other">>
            \* only a vendor's own error makes a call to an initialised adapter fail
            /\ (a # "none" /\ ~llmOut.ok) => ~llmIn.b.ok

\* auto with both vendors initialised has called OpenAI
C19_Witness ==
    /\ llmPc = "returned"
    /\ llmIn.provider = "auto"
    /\ llmIn.llm.openai /\ llmIn.llm.anthropic
    /\ AdapterCalled(llmOut) = "openai"

(***************************************************************************)
(* C20: for every run that ends completed, the outputs written on the run  *)
(* are the initial inputs with the stripped output envelope of each node   *)
(* shallow-merged in execution order, a later node's key overwriting an    *)
(* earlier value of the same key.                                          *)
(***************************************************************************)
Overwritten(ctx, out) ==
    [k \in DOMAIN ctx \cup DOMAIN out |-> IF k \in DOMAIN out THEN out[k] ELSE ctx[k]]

RECURSIVE MergedInOrder(_, _)
MergedInOrder(ctx, ws) ==
    IF ws = <<>> THEN ctx
    ELSE MergedInOrder(Overwritten(ctx, Head(ws).val.outputs), Tail(ws))

C20_OutputsAreMergedEnvelopes ==
    \A t \in Tasks :
        LET tk == task[t]
            ws == CompletedStepWrites(tk)
        IN  \* the envelope persisted for a step is the executor's, stripped
            /\ (Len(tk.writes) > 0 /\ tk.writes[Len(tk.writes)].key.k = "step_run"
                  /\ tk.writes[Len(tk.writes)].val.status = "completed") =>
                  tk.writes[Len(tk.writes)].val.outputs =
                     [k \in DOMAIN tk.raw_output \ AccountingKeys |-> tk.raw_output[k]]
            /\ (tk.pc = "returned" /\ tk.result.status = "completed") =>
                  LET last == tk.writes[Len(tk.writes)]
                  IN  /\ Len(ws) = Len(tk.order)
                      /\ \A i \in DOMAIN ws :
                            ws[i].key = StepKey(tk.step_runs[tk.order[i]])
                      /\ last.key = RunKey(tk.run_id)
                      /\ last.val.outputs = MergedInOrder(tk.inputs, ws)
                      /\ tk.result.outputs = MergedInOrder(tk.inputs, ws)

\* a completed run of two nodes in which the second node's `content`
\* replaced the first node's, which had replaced the inputs'
C20_Witness ==
    \E t \in Tasks :
        LET tk == task[t]
            ws == CompletedStepWrites(tk)
        IN  /\ tk.pc = "returned" /\ tk.result.status = "completed"
            /\ Len(ws) = 2
            /\ K_content \in DOMAIN tk.inputs
            /\ K_content \in DOMAIN ws[1].val.outputs
            /\ K_content \in DOMAIN ws[2].val.outputs
            /\ ws[1].val.outputs[K_content] # tk.inputs[K_content]
            /\ ws[2].val.outputs[K_content] # ws[1].val.outputs[K_content]
            /\ tk.result.outputs[K_content] = ws[2].val.outputs[K_content]
            /\ tk.result.outputs[K_cost] = tk.inputs[K_cost]

(***************************************************************************)
(* C21: a start or resume request that is rejected at the HTTP layer       *)
(* (pipeline or inputs absent, or for resume a decision other than         *)
(* approved) returns a 4xx error, schedules no pipeline execution and      *)
(* writes no run or step state; every other request, a start whose inputs  *)
(* is the empty map included, is accepted and scheduled.                   *)
(***************************************************************************)
RejectedAtHttp(via, body) ==
    \/ "pipeline" \notin DOMAIN body
    \/ "inputs" \notin DOMAIN body
    \/ /\ via = "resume"
       /\ ("decision" \notin DOMAIN body \/ body.decision # "approved")

C21_RejectedRequestsInert ==
    [][env'.requests # env.requests =>
          IF RejectedAtHttp(http'.via, http'.body)
          THEN /\ http'.code \in 400..499
               /\ task' = task
               /\ redis' = redis
          ELSE /\ http'.code = 200
               /\ \E t \in Tasks :
                     /\ task[t].pc = "idle"
                     /\ task'[t].pc = "scheduled"
                     /\ task'[t].pipeline = http'.body.pipeline
                     /\ task'[t].inputs = http'.body.inputs]_vars

\* a resume whose decision is not approved has been answered 400 with
\* nothing scheduled and nothing written
C21_Witness ==
    /\ http.code = 400
    /\ http.via = "resume"
    /\ "decision" \in DOMAIN http.body
    /\ http.body.decision = "rejected"
    /\ \A t \in Tasks : task[t].pc = "idle"
    /\ redis = <<>>

(***************************************************************************)
(* C22: interpolating any template against the empty context returns the   *)
(* template unchanged: the executor's interpolator on an empty context,    *)
(* and the LLM service's second pass (always on the empty context) on      *)
(* whatever prompt the executor produced.                                  *)
(***************************************************************************)
C22_EmptyContextIdentity ==
    /\ (tplPc \in {"prompt", "sent"} /\ tplIn.ctx = "empty")
          => tplOut.prompt = tplIn.template
    /\ tplPc = "sent" => tplOut.sent = tplOut.prompt

\* a template with a placeholder went through both passes on the empty
\* context and came out as it was
C22_Witness ==
    /\ tplPc = "sent"
    /\ tplIn.ctx = "empty"
    /\ tplIn.template = Placeholder(<<"a">>) \o <<"t">>
    /\ tplOut.sent = tplIn.template

(***************************************************************************)
(* C23: the executor's interpolator is idempotent on resolved templates:   *)
(* when every placeholder of the template resolves in the context,         *)
(* interpolating the result once more in the same context changes nothing. *)
(***************************************************************************)
RECURSIVE EveryPlaceholderResolves(_, _, _)
EveryPlaceholderResolves(template, i, context) ==
    IF i > Len(template) THEN TRUE
    ELSE IF MatchEnd(template, i) = 0
    THEN EveryPlaceholderResolves(template, i + 1, context)
    ELSE /\ ForKey(TDict(context),
                   Split(Strip(SubSeq(template, i + 2, MatchEnd(template, i) - 2))),
                   1, context, TRUE).hit
         /\ EveryPlaceholderResolves(template, MatchEnd(template, i) + 1, context)

C23_Idempotent ==
    (/\ tplPc = "prompt"
     /\ EveryPlaceholderResolves(tplIn.template, 1, Context(tplIn.ctx)))
        => StepExecutor_interpolate_template(tplOut.prompt, Context(tplIn.ctx))
              = tplOut.prompt

(***************************************************************************)
(* C25: in the executor's interpolator a path that resolves directly in    *)
(* the context wins; otherwise the fallback applies only to the first      *)
(* segment: the first top-level value, in insertion order, that is a       *)
(* mapping with the first segment as a key is taken and resolution         *)
(* continues from it; a later segment that is missing leaves the           *)
(* placeholder literal and is not looked up in another top-level mapping.  *)
(***************************************************************************)
FirstSegmentFallback(keys, context) ==
    LET holders == {i \in DOMAIN context :
                       /\ context[i][2].t = "dict"
                       /\ HasKey(context[i][2].v, keys[1])}
    IN  IF HasKey(context, keys[1])
        THEN ForKey(TDict(context), keys, 1, context, FALSE)
        ELSE IF holders # {}
        THEN ForKey(ItemOf(context[CHOOSE i \in holders :
                                      \A j \in holders : i <= j][2].v, keys[1]),
                    keys, 2, context, FALSE)
        ELSE [hit |-> FALSE, value |-> TNone]

RECURSIVE FirstSegmentSub(_, _, _)
FirstSegmentSub(template, i, context) ==
    IF i > Len(template) THEN <<>>
    ELSE IF MatchEnd(template, i) = 0
    THEN <<template[i]>> \o FirstSegmentSub(template, i + 1, context)
    ELSE LET found == FirstSegmentFallback(
                          Split(Strip(SubSeq(template, i + 2, MatchEnd(template, i) - 2))),
                          context)
         IN  (IF ~found.hit THEN SubSeq(template, i, MatchEnd(template, i))
              ELSE IF found.value.t = "str" THEN found.value.v
              ELSE IF found.value.t = "none" THEN <<>>
              ELSE PyRepr(found.value, 1))
             \o FirstSegmentSub(template, MatchEnd(template, i) + 1, context)

C25_FallbackOnFirstSegmentOnly ==
    tplPc = "prompt"
        => tplOut.prompt = FirstSegmentSub(tplIn.template, 1, Context(tplIn.ctx))

(***************************************************************************)
(* C26: a tool config is interpolated by the same rules as an agent        *)
(* prompt: the registry's result for a config string is what the           *)
(* executor's interpolator gives for the same template and context, the    *)
(* placeholders that resolve only through the one-level fallback included. *)
(***************************************************************************)
C26_ConfigLikePrompt ==
    tplPc = "config"
        => ItemOf(tplOut.config, K_query).v
              = StepExecutor_interpolate_template(tplIn.template, Context(tplIn.ctx))

(***************************************************************************)
(* C24: within one execution of a run the nodes execute strictly one after *)
(* the other in the computed topological order: at most one step is        *)
(* running at any time, and a node is set to running only after every node *)
(* before it in the order has been set to completed.                       *)
(***************************************************************************)
\* the positions of the order whose step was last set to running
RunningNow(tk) ==
    {i \in DOMAIN tk.order :
        /\ tk.order[i] \in DOMAIN tk.step_runs
        /\ LET log == StepStatusLog(tk, tk.order[i])
           IN  log # <<>> /\ log[Len(log)] = "running"}

C24_OneAtATimeInOrder ==
    \A t \in Tasks :
        LET tk == task[t]
        IN  /\ Cardinality(RunningNow(tk)) <= 1
            /\ \A i \in DOMAIN tk.order :
                  StepWritten(tk, tk.order[i], "running") =>
                      \A j \in 1..(i - 1) : StepWritten(tk, tk.order[j], "completed")

\* the second node of the order is running, the first one is completed
C24_Witness ==
    \E t \in Tasks :
        LET tk == task[t]
        IN  /\ tk.pc = "execute"
            /\ RunningNow(tk) = {2}
            /\ StepWritten(tk, tk.order[1], "completed")
            /\ ~StepWritten(tk, tk.order[2], "completed")

(***************************************************************************)
(* C28: whenever topological_sort returns, the order is a permutation of   *)
(* the node ids of the pipeline: every node id exactly once and no id that *)
(* is not a node.                                                          *)
(***************************************************************************)
C28_OrderIsPermutation ==
    sortPc = "returned" =>
        /\ Range(kahn.result) = NodeIds(dag)
        /\ Len(kahn.result) = Cardinality(NodeIds(dag))

(***************************************************************************)
(* C29: under a policy whose allowedTools is not empty, no tool outside    *)
(* allowedTools is ever invoked, the tools that another tool calls         *)
(* included (competitor_analysis calling web_search when it is given no    *)
(* searchResults).                                                         *)
(***************************************************************************)
C29_OnlyAllowedToolsRun ==
    \A t \in Tasks :
        \A j \in DOMAIN task[t].dispatched :
            AllowedTools(task[t].pipeline) # {} =>
                Range(task[t].dispatched[j].invoked) \subseteq AllowedTools(task[t].pipeline)

(***************************************************************************)
(* C30: a resume request with decision approved schedules an execution     *)
(* only when the run is suspended at that moment: its last persisted       *)
(* status is needs_approval and an approval marker exists for it.  A run   *)
(* that was never started, is still running, or has already ended          *)
(* completed or failed is not executed again.                              *)
(***************************************************************************)
Suspended(r) ==
    /\ RunKey(r) \in DOMAIN redis
    /\ redis[RunKey(r)].status = "needs_approval"
    /\ \E key \in DOMAIN redis : key.k = "approval" /\ key.run = r

\* between the request and the first step of the execution it schedules
\* nothing else runs, so the stores are those the request handler saw
C30_ResumeOnlyWhenSuspended ==
    \A t \in Tasks :
        (task[t].via = "resume" /\ task[t].pc = "scheduled")
            => Suspended(task[t].run_id)

(***************************************************************************)
(* C27: two runs with different run ids whose executions interleave at     *)
(* every outbound I/O point do not affect each other: the context, the     *)
(* step outputs, the totals, the terminal status and the Redis keys of     *)
(* each run are those of the run executing alone, that is, they are        *)
(* determined by the run's own request and by what its own steps returned. *)
(***************************************************************************)
KeyRun(key) == IF key.k = "step_run" THEN key.id.run ELSE key.run

C27_RunsIsolated ==
    \A t \in Tasks :
        LET tk == task[t]
            ws == CompletedStepWrites(tk)
        IN  (tk.pc # "idle" /\ \A u \in Tasks \ {t} : task[u].run_id # tk.run_id) =>
              \* the execution writes the keys of its own run only
              /\ \A i \in DOMAIN tk.writes : KeyRun(tk.writes[i].key) = tk.run_id
              /\ \A i \in DOMAIN tk.calls :
                    IF tk.calls[i].method = "POST" THEN tk.calls[i].target = tk.run_id
                    ELSE KeyRun(tk.calls[i].target) = tk.run_id
              \* every key of the run holds what the execution last wrote to it
              /\ \A key \in DOMAIN redis :
                    KeyRun(key) = tk.run_id =>
                        \E i \in DOMAIN tk.writes :
                            /\ tk.writes[i].key = key
                            /\ \A j \in (i + 1)..Len(tk.writes) : tk.writes[j].key # key
                            /\ redis[key] = tk.writes[i].val
              /\ \A i \in DOMAIN tk.writes : tk.writes[i].key \in DOMAIN redis
              \* the context is the request's inputs merged with the run's own
              \* step outputs
              /\ tk.order # <<>> => tk.current_outputs = MergedInOrder(tk.inputs, ws)
              \* the terminal status and the totals are those of the run's own steps
              /\ tk.pc = "returned" =>
                    /\ tk.result.status = "completed"
                    /\ Len(ws) = Len(tk.order)
                    /\ redis[RunKey(tk.run_id)] =
                          [status |-> "completed",
                           outputs |-> MergedInOrder(tk.inputs, ws),
                           cost |-> SumOf(ws, "cost"),
                           tokensUsed |-> SumOf(ws, "tokensUsed")]
              /\ tk.pc = "raised" =>
                    /\ redis[RunKey(tk.run_id)].status = "failed"
                    /\ redis[RunKey(tk.run_id)].errorMessage = tk.exc

\* both executions are in the middle of their walks at the same time, each
\* with a completed first step of a different cost, and the Redis shadow
\* holds the two runs side by side
C27_Witness ==
    /\ task["t1"].run_id # task["t2"].run_id
    /\ \A t \in Tasks :
          /\ task[t].pc = "execute"
          /\ task[t].idx = 2
          /\ Len(CompletedStepWrites(task[t])) = 1
          /\ redis[RunKey(task[t].run_id)].status = "running"
    /\ task["t1"].total_cost # task["t2"].total_cost

(***************************************************************************)
(* C31: when every back-end call (LLM, tool, control plane, Redis) returns *)
(* or raises, every execution of execute_pipeline terminates, the queue    *)
(* loop of the scheduler terminates on every finite node and edge list,    *)
(* and the last run-level status the execution wrote is completed, failed  *)
(* or needs_approval: a run is never left in running.                      *)
(***************************************************************************)
\* the scheduler under weak fairness: a step that stays possible is taken
FairSpecSort == SortInit /\ [][SortNext]_vars /\ WF_vars(SortNext)

\* the termination parts of C31: the queue loop ends
C31_QueueLoopTerminates == <>(sortPc \in {"returned", "raised"})

\* an execution cannot run forever: every step of it lowers a rank that is
\* a natural number
Rank(tk) ==
    CASE tk.pc = "idle" -> 2000
      [] tk.pc = "scheduled" -> 1000
      [] tk.pc = "sort" -> 999
      [] tk.pc = "create" -> 900 - tk.idx
      [] tk.pc = "walk" -> 800 - 10 * tk.idx
      [] tk.pc = "execute" -> 800 - 10 * tk.idx - 1
      [] tk.pc = "step_completed" -> 800 - 10 * tk.idx - 2
      [] tk.pc = "step_failed" -> 50
      [] tk.pc = "finish" -> 45
      [] tk.pc = "run_failed" -> 40
      [] tk.pc = "handler" -> 30
      [] OTHER -> 0

C31_RankDecreases ==
    [][\A t \in Tasks :
          task'[t] # task[t] =>
              Rank(task'[t]) \in Nat /\ Rank(task'[t]) < Rank(task[t])]_vars

\* the status part of C31: an execution that has ended and wrote a run-level
\* status wrote a terminal one last
C31_NeverLeftRunning ==
    \A t \in Tasks :
        (Finished(t) /\ RunWrites(task[t]) # <<>>) =>
            LET ws == RunWrites(task[t])
            IN  ws[Len(ws)].val.status \in {"completed", "failed", "needs_approval"}

====
